---- MODULE Spec2Model ----
(***************************************************************************)
(* Model of the fleet servicing application (src/main.py): the relational  *)
(* store (operations and their pollutant line items over seeded lookup     *)
(* tables) and the request handlers that read and write it.                *)
(*                                                                         *)
(* Conventions.                                                            *)
(*  - A nullable value (Python None, SQL NULL) is a set with at most one   *)
(*    element: {} is None/NULL, {v} is the value v.                        *)
(*  - Dates are day numbers of September 2025: 28 is date(2025, 9, 28).    *)
(*  - Ships, ports, contractors and pollutants are named by their ids; the *)
(*    seeded names sort like the ids while there are at most 9 of a kind.  *)
(*  - Amounts are whole numbers, which Python floats and SQLite REAL hold  *)
(*    exactly.                                                             *)
(*  - Line-item rows are records without their surrogate id column: the    *)
(*    handlers never read it.                                              *)
(***************************************************************************)
EXTENDS Integers, Sequences, FiniteSets, TLC

VARIABLES operations, operation_pollutants, request, response,
          pending, writer, reader

vars == <<operations, operation_pollutants, request, response,
          pending, writer, reader>>

(***************************************************************************)
(* Bounds of the model.                                                    *)
(***************************************************************************)
NumShips == 2
NumPorts == 1
NumContractors == 1
NumPollutants == 2
MaxOperations == 2
MaxAmount == 1
DaysAfter == 1
MaxShipIdsLen == 3

(***************************************************************************)
(* Seed data (init_data) and the analytics cutoff.                         *)
(***************************************************************************)
Ship == 1..NumShips
Port == 1..NumPorts
Contractor == 1..NumContractors
Pollutant == 1..NumPollutants

current_date == 28

later_date == current_date + DaysAfter

\* The dates submitted: the cutoff day and a day after it.
Dates == {current_date, later_date}

None == {}

Some(v) == {v}

TheValue(opt) == CHOOSE v \in opt : TRUE

(***************************************************************************)
(* Small helpers.                                                          *)
(***************************************************************************)
MaxOf(S) == CHOOSE m \in S : \A x \in S : x <= m

MinOf(S) == CHOOSE m \in S : \A x \in S : m <= x

RECURSIVE SumCost(_)
SumCost(rows) ==
    IF rows = {} THEN 0
    ELSE LET r == CHOOSE x \in rows : TRUE
         IN  r.cost + SumCost(rows \ {r})

RECURSIVE SumVolume(_)
SumVolume(rows) ==
    IF rows = {} THEN 0
    ELSE LET r == CHOOSE x \in rows : TRUE
         IN  r.volume + SumVolume(rows \ {r})

(***************************************************************************)
(* Form fields volume_<id> and cost_<id> of a create or edit submission.   *)
(* A form maps each pollutant id to the raw strings of its two fields;     *)
(* NoKey marks a key that the form does not contain.                       *)
(***************************************************************************)
NoKey == "<no key>"

\* float(s) for the raw strings the model submits: {} stands for ValueError.
ParseFloat(s) ==
    CASE s = "0"  -> Some(0)
      [] s = "1"  -> Some(1)
      [] s = "2"  -> Some(2)
      [] s = "3"  -> Some(3)
      [] s = "-1" -> Some(0 - 1)
      [] OTHER    -> None

\* str(n) for the amounts the model submits.
AmountString(n) ==
    CASE n = 0 -> "0"
      [] n = 1 -> "1"
      [] n = 2 -> "2"
      [] OTHER -> "3"

FormsOver(raw) == [Pollutant -> [volume : raw, cost : raw]]

\* Persisted with >= written for >.
PersistedNonNegative(volume, cost) == volume >= 0 \/ cost >= 0

\* The test that decides whether a parsed field pair becomes a line item.
Persisted(volume, cost) == volume > 0 \/ cost > 0

\* The loop over pollutants of create_operation and update_operation: the
\* line items added to the session for operation id.
NewLineItems(id, form) ==
    { [operation_id |-> id, pollutant_id |-> p,
       volume |-> TheValue(ParseFloat(form[p].volume)),
       cost |-> TheValue(ParseFloat(form[p].cost))] :
      p \in { q \in Pollutant :
                /\ form[q].volume # NoKey
                /\ form[q].cost # NoKey
                /\ ParseFloat(form[q].volume) # None
                /\ ParseFloat(form[q].cost) # None
                /\ Persisted(TheValue(ParseFloat(form[q].volume)),
                             TheValue(ParseFloat(form[q].cost))) } }

\* The id SQLite gives the next operations row (INTEGER PRIMARY KEY).
NextOperationId ==
    IF DOMAIN operations = {} THEN 1 ELSE MaxOf(DOMAIN operations) + 1

\* Lookup without its filter: the first row of the table.
LookupFirstRow(operation_id) ==
    IF DOMAIN operations = {} THEN None ELSE Some(MinOf(DOMAIN operations))

\* db.query(Operation).filter(Operation.id == operation_id).first()
Lookup(operation_id) ==
    IF operation_id \in DOMAIN operations THEN Some(operation_id) ELSE None

LineItemsOf(id) == { li \in operation_pollutants : li.operation_id = id }

\* ReplacedLineItems when the bulk delete is left out.
ReplacedNothing(operation_id) == {}

\* The rows removed by the bulk delete of update_operation.
ReplacedLineItems(operation_id) == LineItemsOf(operation_id)

\* CascadedLineItems when the relationship has no cascade.
CascadedNothing(operation_id) == {}

\* The rows removed with an operation by the delete-orphan cascade.
CascadedLineItems(operation_id) == LineItemsOf(operation_id)

\* Cost Rollup: func.sum(cost) of an operation's line items, or 0.0.
TotalCost(id) == SumCost(LineItemsOf(id))

(***************************************************************************)
(* Handlers, each run without interleaving.                                *)
(***************************************************************************)
Idle == UNCHANGED <<pending, writer, reader>>

create_operation(ship_id, port_id, contractor_id, date, form) ==
    LET id == NextOperationId
    IN  /\ operations' =
             [o \in DOMAIN operations \cup {id} |->
                IF o = id
                THEN [ship_id |-> ship_id, port_id |-> port_id,
                      contractor_id |-> contractor_id, date |-> date,
                      has_documents |-> FALSE]
                ELSE operations[o]]
        /\ operation_pollutants' =
             operation_pollutants \cup NewLineItems(id, form)
        /\ request' = [kind |-> "create", operation_id |-> id,
                       ship_id |-> ship_id, port_id |-> port_id,
                       contractor_id |-> contractor_id, date |-> date,
                       form |-> form]
        /\ response' = [status |-> 303]
        /\ Idle

\* rows_deleted is the row count of the handler's DELETE statements; it is
\* kept with the outcome although the redirect does not carry it.
\* Of a request answered 404 only the path parameter is kept in request: the
\* handler raises before it reads anything else.
update_operation(operation_id, ship_id, port_id, contractor_id, date, has_documents, form) ==
    /\ IF Lookup(operation_id) = None
       THEN /\ request' = [kind |-> "edit", operation_id |-> operation_id]
            /\ response' = [status |-> 404]
            /\ UNCHANGED <<operations, operation_pollutants>>
       ELSE LET id == TheValue(Lookup(operation_id))
            IN  /\ operations' =
                     [operations EXCEPT ![id] =
                        [ship_id |-> ship_id, port_id |-> port_id,
                         contractor_id |-> contractor_id, date |-> date,
                         has_documents |-> has_documents]]
                /\ operation_pollutants' =
                     (operation_pollutants \ ReplacedLineItems(operation_id))
                       \cup NewLineItems(id, form)
                /\ request' =
                     [kind |-> "edit", operation_id |-> operation_id,
                      ship_id |-> ship_id, port_id |-> port_id,
                      contractor_id |-> contractor_id, date |-> date,
                      has_documents |-> has_documents, form |-> form]
                /\ response' =
                     [status |-> 303,
                      rows_deleted |->
                        Cardinality(ReplacedLineItems(operation_id))]
    /\ Idle

delete_operation(operation_id) ==
    /\ IF Lookup(operation_id) = None
       THEN /\ response' = [status |-> 404]
            /\ UNCHANGED <<operations, operation_pollutants>>
       ELSE LET id == TheValue(Lookup(operation_id))
            IN  /\ operations' =
                     [o \in DOMAIN operations \ {id} |-> operations[o]]
                /\ operation_pollutants' =
                     operation_pollutants \ CascadedLineItems(id)
                /\ response' =
                     [status |-> 303,
                      rows_deleted |-> Cardinality(CascadedLineItems(id))]
    /\ request' = [kind |-> "delete", operation_id |-> operation_id]
    /\ Idle

\* The JSON body of get_operation for a loaded operation and what the later
\* queries of the handler returned. A reference to a missing ship, port or
\* contractor loads as None, and reading its name raises (500).
DetailBody(id, operation, items, total_cost) ==
    IF \/ operation.ship_id \notin Ship
       \/ operation.port_id \notin Port
       \/ operation.contractor_id \notin Contractor
    THEN [status |-> 500]
    ELSE [status |-> 200,
          id |-> id,
          ship |-> operation.ship_id,
          port |-> operation.port_id,
          contractor |-> operation.contractor_id,
          date |-> operation.date,
          has_documents |-> operation.has_documents,
          pollutants |->
            { [name |-> li.pollutant_id, volume |-> li.volume,
               cost |-> li.cost] : li \in items },
          total_cost |-> total_cost]

get_operation(operation_id) ==
    /\ request' = [kind |-> "detail", operation_id |-> operation_id]
    /\ response' =
         IF Lookup(operation_id) = None
         THEN [status |-> 404]
         ELSE LET id == TheValue(Lookup(operation_id))
              IN  DetailBody(id, operations[id], LineItemsOf(id),
                             TotalCost(id))
    /\ UNCHANGED <<operations, operation_pollutants>>
    /\ Idle

(***************************************************************************)
(* The analytics request: two aggregate queries over                       *)
(*   ships LEFT JOIN operations LEFT JOIN operation_pollutants             *)
(*         LEFT JOIN pollutants                                            *)
(* A joined row holds the ship and, when the join found them, the          *)
(* operation id, the line item and the pollutant.                         *)
(***************************************************************************)
OperationsOfShip(s) == { o \in DOMAIN operations : operations[o].ship_id = s }

JoinedRows ==
    UNION {
      IF OperationsOfShip(s) = {}
      THEN { [ship |-> s, operation |-> None, item |-> None,
              pollutant |-> None] }
      ELSE UNION {
             IF LineItemsOf(o) = {}
             THEN { [ship |-> s, operation |-> Some(o), item |-> None,
                     pollutant |-> None] }
             ELSE { [ship |-> s, operation |-> Some(o), item |-> Some(li),
                     pollutant |->
                       IF li.pollutant_id \in Pollutant
                       THEN Some(li.pollutant_id) ELSE None] :
                    li \in LineItemsOf(o) } :
             o \in OperationsOfShip(s) } :
      s \in Ship }

\* .filter(Operation.date <= current_date): a NULL date is not <= anything.
DateFilter(row) ==
    /\ row.operation # None
    /\ operations[TheValue(row.operation)].date <= current_date

\* PositiveFilter that tests the volume only.
PositiveVolumeFilter(row) ==
    /\ row.item # None
    /\ TheValue(row.item).volume > 0

\* .filter((OperationPollutant.volume > 0) | (OperationPollutant.cost > 0))
PositiveFilter(row) ==
    /\ row.item # None
    /\ TheValue(row.item).volume > 0 \/ TheValue(row.item).cost > 0

ItemsOfRows(rows) == { TheValue(r.item) : r \in { x \in rows : x.item # None } }

\* func.sum over a column of the rows: NULL when no row has a value.
SqlSumVolume(rows) ==
    IF ItemsOfRows(rows) = {} THEN None ELSE Some(SumVolume(ItemsOfRows(rows)))

SqlSumCost(rows) ==
    IF ItemsOfRows(rows) = {} THEN None ELSE Some(SumCost(ItemsOfRows(rows)))

RowDates(rows) ==
    { operations[TheValue(r.operation)].date :
      r \in { x \in rows : x.operation # None } }

RECURSIVE Ascending(_)
Ascending(S) ==
    IF S = {} THEN <<>>
    ELSE <<MinOf(S)>> \o Ascending(S \ {MinOf(S)})

\* One row of summary_query for the group of rows of ship s.
SummaryRow(s, rows) ==
    [ship_name |-> s,
     operation_count |-> Cardinality({ r \in rows : r.operation # None }),
     total_volume |-> SqlSumVolume(rows),
     total_cost |-> SqlSumCost(rows),
     pollutant_types |->
       LET names == { TheValue(r.pollutant) :
                      r \in { x \in rows : x.pollutant # None } }
       IN  IF names = {} THEN None ELSE Some(names),
     first_operation |->
       IF RowDates(rows) = {} THEN None ELSE Some(MinOf(RowDates(rows))),
     last_operation |->
       IF RowDates(rows) = {} THEN None ELSE Some(MaxOf(RowDates(rows)))]

\* summary_query: group by Ship.id, order by Ship.name.
summary_results ==
    LET rows == { r \in JoinedRows : DateFilter(r) }
        groups == Ascending({ r.ship : r \in rows })
    IN  [i \in DOMAIN groups |->
           SummaryRow(groups[i], { r \in rows : r.ship = groups[i] })]

\* pollutants_query: group by and order by Ship.name, Pollutant.name. The
\* group key is the pair <<ship, pollutant>>; a NULL pollutant is 0, which
\* sorts first.
BreakdownKey(r) ==
    <<r.ship, IF r.pollutant = None THEN 0 ELSE TheValue(r.pollutant)>>

KeyBefore(a, b) == a[1] < b[1] \/ (a[1] = b[1] /\ a[2] <= b[2])

RECURSIVE AscendingKeys(_)
AscendingKeys(S) ==
    IF S = {} THEN <<>>
    ELSE LET k == CHOOSE a \in S : \A b \in S : KeyBefore(a, b)
         IN  <<k>> \o AscendingKeys(S \ {k})

pollutants_results ==
    LET rows == { r \in JoinedRows : DateFilter(r) /\ PositiveFilter(r) }
        groups == AscendingKeys({ BreakdownKey(r) : r \in rows })
    IN  [i \in DOMAIN groups |->
           LET g == { r \in rows : BreakdownKey(r) = groups[i] }
           IN  [ship_name |-> groups[i][1],
                pollutant_name |-> groups[i][2],
                total_volume |-> SqlSumVolume(g),
                total_cost |-> SqlSumCost(g)]]

\* x or 0
OrZero(opt) == IF opt = None THEN 0 ELSE TheValue(opt)

\* The context handed to the template; the charts are given by the series
\* they are drawn from.
analytics ==
    /\ request' = [kind |-> "analytics"]
    /\ response' =
         [status |-> 200,
          operations |->
            { o \in DOMAIN operations : operations[o].date <= current_date },
          summary_results |-> summary_results,
          pollutants_results |-> pollutants_results,
          volume_chart |->
            [i \in DOMAIN summary_results |->
               <<summary_results[i].ship_name,
                 OrZero(summary_results[i].total_volume)>>],
          pie_charts |->
            { s \in Ship :
                \E i \in DOMAIN pollutants_results :
                    pollutants_results[i].ship_name = s }]
    /\ UNCHANGED <<operations, operation_pollutants>>
    /\ Idle

(***************************************************************************)
(* The list request and its Filter Builder. A query string is a sequence   *)
(* of one-character strings.                                               *)
(***************************************************************************)
\* s.split(",")
RECURSIVE Split(_)
Split(s) ==
    IF \A i \in DOMAIN s : s[i] # ","
    THEN <<s>>
    ELSE LET i == MinOf({ j \in DOMAIN s : s[j] = "," })
         IN  <<SubSeq(s, 1, i - 1)>> \o Split(SubSeq(s, i + 1, Len(s)))

DigitValue(c) ==
    CASE c = "0" -> 0 [] c = "1" -> 1 [] c = "2" -> 2 [] c = "3" -> 3
      [] c = "4" -> 4 [] c = "5" -> 5 [] c = "6" -> 6 [] c = "7" -> 7
      [] c = "8" -> 8 [] OTHER -> 9

Digits == {"0", "1", "2", "3", "4", "5", "6", "7", "8", "9"}

RECURSIVE DecimalValue(_)
DecimalValue(token) ==
    IF token = <<>> THEN 0
    ELSE 10 * DecimalValue(SubSeq(token, 1, Len(token) - 1))
           + DigitValue(token[Len(token)])

\* int(token) for tokens of digits and letters: {} stands for ValueError.
ParseInt(token) ==
    IF token # <<>> /\ \A i \in DOMAIN token : token[i] \in Digits
    THEN Some(DecimalValue(token))
    ELSE None

\* ShipFilter that skips the tokens int() rejects instead of giving up.
ShipFilterSkippingBadTokens(ship_ids) ==
    IF ship_ids = None \/ ship_ids = Some(<<>>)
    THEN None
    ELSE LET tokens == Split(TheValue(ship_ids))
             used == { i \in DOMAIN tokens : ParseInt(tokens[i]) # None }
         IN  Some({ TheValue(ParseInt(tokens[i])) : i \in used })

\* The ship filter: {} when no filter is applied, else the list given to
\* Operation.ship_id.in_.
ShipFilter(ship_ids) ==
    IF ship_ids = None \/ ship_ids = Some(<<>>)
    THEN None
    ELSE LET tokens == Split(TheValue(ship_ids))
             used == { i \in DOMAIN tokens : tokens[i] # <<>> }
         IN  IF \E i \in used : ParseInt(tokens[i]) = None
             THEN None
             ELSE Some({ TheValue(ParseInt(tokens[i])) : i \in used })

\* datetime.strptime(s, "%Y-%m-%d").date(): {} stands for ValueError.
ParseDate(s) ==
    CASE s = "2025-09-28" -> Some(28)
      [] s = "2025-09-29" -> Some(29)
      [] s = "2025-09-30" -> Some(30)
      [] OTHER -> None

\* The query-string form of the dates the model submits.
DateString(d) ==
    CASE d = 28 -> "2025-09-28"
      [] d = 29 -> "2025-09-29"
      [] OTHER  -> "2025-09-30"

\* A date bound: {} when the bound is not applied.
DateBound(param) ==
    IF param = None \/ param = Some("") THEN None
    ELSE ParseDate(TheValue(param))

\* sort_order.lower()
Lower(s) == IF s = "ASC" \/ s = "Asc" THEN "asc" ELSE s

\* The operations selected by the filters of a list request.
Filtered(q) ==
    { o \in DOMAIN operations :
        /\ ShipFilter(q.ship_ids) # None =>
             operations[o].ship_id \in TheValue(ShipFilter(q.ship_ids))
        /\ DateBound(q.start_date) # None =>
             operations[o].date >= TheValue(DateBound(q.start_date))
        /\ DateBound(q.end_date) # None =>
             operations[o].date <= TheValue(DateBound(q.end_date))
        /\ (q.port_id # None /\ q.port_id # Some(0)) =>
             operations[o].port_id = TheValue(q.port_id) }

\* The orders in which the store may return the selected operations: by
\* date, ascending or descending, rows of equal date in any order.
Ordered(ids, sort_order) ==
    { seq \in [1..Cardinality(ids) -> ids] :
        /\ \A i, j \in DOMAIN seq : i # j => seq[i] # seq[j]
        /\ \A i, j \in DOMAIN seq :
             i < j =>
               IF Lower(sort_order) = "asc"
               THEN operations[seq[i]].date <= operations[seq[j]].date
               ELSE operations[seq[i]].date >= operations[seq[j]].date }

list_operations(q) ==
    /\ \E seq \in Ordered(Filtered(q), q.sort_order) :
         response' =
           [status |-> 200,
            operations |-> seq,
            total_costs |-> [o \in Filtered(q) |-> TotalCost(o)],
            ships |-> Ascending(Ship),
            ports |-> Ascending(Port),
            selected_ship_ids |->
              IF q.ship_ids = None \/ q.ship_ids = Some(<<>>)
              THEN <<>> ELSE Split(TheValue(q.ship_ids)),
            selected_start_date |-> q.start_date,
            selected_end_date |-> q.end_date,
            selected_port_id |-> q.port_id,
            sort_order |-> q.sort_order]
    /\ request' = [kind |-> "list", query |-> q]
    /\ UNCHANGED <<operations, operation_pollutants, pending, writer, reader>>

(***************************************************************************)
(* Initial state: the store after startup, with the seed data only.        *)
(***************************************************************************)
Init ==
    /\ operations = [o \in {} |-> {}]
    /\ operation_pollutants = {}
    /\ request = [kind |-> "startup"]
    /\ response = [status |-> 0]
    /\ pending = None
    /\ writer = [pc |-> "idle"]
    /\ reader = [pc |-> "idle"]

(***************************************************************************)
(* Inputs shared by the specifications.                                    *)
(***************************************************************************)
\* The largest amount submitted, as the form carries it.
Amount == AmountString(MaxAmount)

\* A form with no positive field.
ZeroForm == [p \in Pollutant |-> [volume |-> "0", cost |-> "0"]]

\* A form with a line item for every pollutant; all but the first have
\* volume 0.
FullForm ==
    [p \in Pollutant |->
       [volume |-> IF p = 1 THEN Amount ELSE "0", cost |-> Amount]]

\* A form with a line item for the first pollutant only, of cost 0.
FirstOnlyForm ==
    [p \in Pollutant |->
       [volume |-> IF p = 1 THEN Amount ELSE "0", cost |-> "0"]]

(***************************************************************************)
(* Spec: create, edit, delete and detail requests whose ship, port or      *)
(* contractor may be an id that no row has.                                *)
(***************************************************************************)
OperationIdInputs == 1..(MaxOperations + 1)

\* <<ship_id, port_id, contractor_id>>: all known, or one of them unknown.
ReferenceInputs ==
    { <<1, 1, 1>>, <<NumShips + 1, 1, 1>>, <<1, NumPorts + 1, 1>>,
      <<1, 1, NumContractors + 1>> }

Create ==
    /\ NextOperationId <= MaxOperations
    /\ \E refs \in ReferenceInputs, form \in {ZeroForm, FullForm} :
           create_operation(refs[1], refs[2], refs[3], current_date, form)

Edit ==
    \E operation_id \in OperationIdInputs, refs \in ReferenceInputs,
       form \in {ZeroForm, FullForm} :
        \* has_documents unchecked; SpecForm submits it checked.
        update_operation(operation_id, refs[1], refs[2], refs[3],
                         current_date, FALSE, form)

Delete == \E operation_id \in OperationIdInputs : delete_operation(operation_id)

Detail == \E operation_id \in OperationIdInputs : get_operation(operation_id)

Next == Create \/ Edit \/ Delete \/ Detail

Spec == Init /\ [][Next]_vars

(***************************************************************************)
(* SpecForm: one operation created and edited with every shape of form     *)
(* field pair <<volume, cost>>: a key missing, a field that is no number,  *)
(* both zero, one positive, a negative volume.                             *)
(***************************************************************************)
FieldPairs ==
    { <<NoKey, "1">>, <<"1", NoKey>>, <<"x", "1">>, <<"1", "x">>,
      <<"0", "0">>, <<"1", "0">>, <<"0", "1">>, <<"-1", "1">>,
      <<"-1", "0">> }

PairForms ==
    { [p \in Pollutant |-> [volume |-> f[p][1], cost |-> f[p][2]]] :
      f \in [Pollutant -> FieldPairs] }

FormCreate ==
    /\ NextOperationId <= 1
    /\ \E form \in PairForms : create_operation(1, 1, 1, current_date, form)

FormEdit ==
    \E form \in PairForms :
        update_operation(1, 1, 1, 1, current_date, TRUE, form)

FormDelete == delete_operation(1)

FormDetail == get_operation(1)

NextForm == FormCreate \/ FormEdit \/ FormDelete \/ FormDetail

SpecForm == Init /\ [][NextForm]_vars

(***************************************************************************)
(* SpecAnalytics: operations of the seeded ships, dated on the cutoff day  *)
(* or after it, with no, one or several line items, and the analytics      *)
(* request.                                                                *)
(***************************************************************************)
AnalyticsForms == {ZeroForm, FullForm, FirstOnlyForm}

AnalyticsCreate ==
    /\ NextOperationId <= MaxOperations
    /\ \E ship_id \in Ship, date \in Dates, form \in AnalyticsForms :
           create_operation(ship_id, 1, 1, date, form)

AnalyticsEdit ==
    \E operation_id \in 1..MaxOperations, ship_id \in Ship, date \in Dates,
       form \in AnalyticsForms :
        update_operation(operation_id, ship_id, 1, 1, date, FALSE, form)

AnalyticsDelete ==
    \E operation_id \in 1..MaxOperations : delete_operation(operation_id)

Analytics == analytics

NextAnalytics ==
    AnalyticsCreate \/ AnalyticsEdit \/ AnalyticsDelete \/ Analytics

SpecAnalytics == Init /\ [][NextAnalytics]_vars

(***************************************************************************)
(* SpecList: a client holds one list request (pending), drawn from every   *)
(* combination of the filter parameters below, and sends it at any time    *)
(* while operations of the first and the last ship are created.            *)
(***************************************************************************)
ShipIdChars == {"1", ",", "x"}

ShipIdsInputs ==
    {None} \cup
    { Some(str) :
      str \in UNION { [1..n -> ShipIdChars] : n \in 0..MaxShipIdsLen } }

StartDateInputs == {None, Some("bad"), Some(DateString(later_date))}

EndDateInputs == {None, Some(DateString(current_date))}

\* No port filter, or the filter on a port no operation of SpecList has.
PortFilterInputs == {None, Some(NumPorts + 1)}

ListQueries ==
    [ship_ids : ShipIdsInputs, start_date : StartDateInputs,
     end_date : EndDateInputs, port_id : PortFilterInputs,
     sort_order : {"ASC", "desc"}]

InitList ==
    /\ operations = [o \in {} |-> {}]
    /\ operation_pollutants = {}
    /\ request = [kind |-> "startup"]
    /\ response = [status |-> 0]
    /\ pending \in { Some(q) : q \in ListQueries }
    /\ writer = [pc |-> "idle"]
    /\ reader = [pc |-> "idle"]

ListCreate ==
    /\ NextOperationId <= MaxOperations
    /\ \E ship_id \in {1, NumShips}, date \in Dates :
           create_operation(ship_id, 1, 1, date, FullForm)

List == pending # None /\ list_operations(TheValue(pending))

NextList == ListCreate \/ List

SpecList == InitList /\ [][NextList]_vars

(***************************************************************************)
(* SpecConc: an edit request and a detail request served by two workers,   *)
(* each with its own session on the same database file. A step is one SQL  *)
(* statement, or the commit. operations and operation_pollutants are the   *)
(* committed contents of the file: the rows the writer has deleted or      *)
(* added inside its open transaction are invisible to the other session    *)
(* until the commit. The reader's session issues only SELECTs, for which   *)
(* the driver opens no transaction, so each of them reads the contents     *)
(* committed at that moment.                                               *)
(*                                                                         *)
(* writer: the edit in progress (pc idle, selected, deleted).              *)
(* reader: the detail request in progress (pc idle, loaded, pollutants,    *)
(* done), what it has read, and seen, the committed states of the          *)
(* operation since the request started.                                    *)
(***************************************************************************)
Snapshot(id) == [operation |-> operations[id], items |-> LineItemsOf(id)]

\* A create by a third worker; it waits while the writer's transaction holds
\* the write lock of the file.
ConcCreate ==
    /\ writer.pc # "deleted"
    /\ NextOperationId <= 1
    /\ \E ship_id \in Ship, form \in {ZeroForm, FullForm} :
           create_operation(ship_id, 1, 1, current_date, form)

\* operation = db.query(Operation).filter(...).first(), and the 404.
EditSelect ==
    /\ writer.pc = "idle"
    /\ \E operation_id \in 1..2, ship_id \in Ship, has_documents \in {TRUE},
          form \in {ZeroForm, FullForm, FirstOnlyForm} :
         IF Lookup(operation_id) = None
         THEN /\ request' = [kind |-> "edit", operation_id |-> operation_id]
              /\ response' = [status |-> 404]
              /\ UNCHANGED writer
         ELSE /\ writer' =
                   [pc |-> "selected", operation_id |-> operation_id,
                    ship_id |-> ship_id, port_id |-> 1, contractor_id |-> 1,
                    date |-> current_date, has_documents |-> has_documents,
                    form |-> form]
              /\ UNCHANGED <<request, response>>
    /\ UNCHANGED <<operations, operation_pollutants, pending, reader>>

\* The attribute assignments (in memory) and the bulk DELETE, which opens
\* the writer's transaction; its effect stays inside the transaction.
EditBulkDelete ==
    /\ writer.pc = "selected"
    /\ writer' = [writer EXCEPT !.pc = "deleted"]
    /\ UNCHANGED <<operations, operation_pollutants, request, response,
                   pending, reader>>

\* db.commit(): the UPDATE of the main row and the INSERTs are flushed and
\* the transaction commits; the file changes in one step.
EditCommit ==
    /\ writer.pc = "deleted"
    /\ LET id == writer.operation_id
       IN  /\ operations' =
                [operations EXCEPT ![id] =
                   [ship_id |-> writer.ship_id, port_id |-> writer.port_id,
                    contractor_id |-> writer.contractor_id,
                    date |-> writer.date,
                    has_documents |-> writer.has_documents]]
           /\ operation_pollutants' =
                (operation_pollutants \ ReplacedLineItems(id))
                  \cup NewLineItems(id, writer.form)
           /\ request' =
                [kind |-> "edit", operation_id |-> id,
                 ship_id |-> writer.ship_id, port_id |-> writer.port_id,
                 contractor_id |-> writer.contractor_id,
                 date |-> writer.date,
                 has_documents |-> writer.has_documents,
                 form |-> writer.form]
           /\ response' =
                [status |-> 303,
                 rows_deleted |-> Cardinality(ReplacedLineItems(id))]
           /\ reader' =
                IF reader.pc \in {"loaded", "pollutants"}
                   /\ reader.operation_id = id
                THEN [reader EXCEPT !.seen =
                        @ \cup { [operation |-> operations'[id],
                                  items |-> NewLineItems(id, writer.form)] }]
                ELSE reader
    /\ writer' = [pc |-> "idle"]
    /\ UNCHANGED pending

\* operation = db.query(Operation).filter(...).first(), and the 404.
DetailSelect ==
    /\ reader.pc = "idle"
    /\ \E operation_id \in 1..2 :
         reader' =
           IF Lookup(operation_id) = None
           THEN [pc |-> "done", operation_id |-> operation_id,
                 response |-> [status |-> 404], seen |-> {}]
           ELSE [pc |-> "loaded", operation_id |-> operation_id,
                 operation |-> operations[operation_id],
                 seen |-> { Snapshot(operation_id) }]
    /\ UNCHANGED <<operations, operation_pollutants, request, response,
                   pending, writer>>

\* The lazy load of operation.pollutants.
DetailLoadPollutants ==
    /\ reader.pc = "loaded"
    /\ reader' =
         [pc |-> "pollutants", operation_id |-> reader.operation_id,
          operation |-> reader.operation,
          items |-> LineItemsOf(reader.operation_id),
          seen |-> reader.seen]
    /\ UNCHANGED <<operations, operation_pollutants, request, response,
                   pending, writer>>

\* The func.sum query and the response.
DetailTotalCost ==
    /\ reader.pc = "pollutants"
    /\ reader' =
         [pc |-> "done", operation_id |-> reader.operation_id,
          response |->
            DetailBody(reader.operation_id, reader.operation, reader.items,
                       TotalCost(reader.operation_id)),
          seen |-> reader.seen]
    /\ UNCHANGED <<operations, operation_pollutants, request, response,
                   pending, writer>>

\* get_db closes the reader's session; the worker takes the next request.
DetailClose ==
    /\ reader.pc = "done"
    /\ reader' = [pc |-> "idle"]
    /\ UNCHANGED <<operations, operation_pollutants, request, response,
                   pending, writer>>

NextConc ==
    \/ ConcCreate
    \/ EditSelect
    \/ EditBulkDelete
    \/ EditCommit
    \/ DetailSelect
    \/ DetailLoadPollutants
    \/ DetailTotalCost
    \/ DetailClose

SpecConc == Init /\ [][NextConc]_vars

(***************************************************************************)
(* Properties of the write handlers.                                       *)
(***************************************************************************)
IsNumber(s) == s # NoKey /\ ParseFloat(s) # None

NumberOf(s) == TheValue(ParseFloat(s))

\* Pollutant p is submitted in form with a positive volume or cost.
SubmittedPositive(form, p) ==
    /\ IsNumber(form[p].volume)
    /\ IsNumber(form[p].cost)
    /\ NumberOf(form[p].volume) > 0 \/ NumberOf(form[p].cost) > 0

\* C4: after a successful edit the operation holds exactly one line item for
\* each pollutant submitted with a positive volume or cost, carrying the
\* submitted amounts, and no other line item.
EditReplacesLineItems ==
    (request.kind = "edit" /\ response.status = 303) =>
        LET id == request.operation_id
            form == request.form
            kept == { p \in Pollutant : SubmittedPositive(form, p) }
        IN  /\ { li.pollutant_id : li \in LineItemsOf(id) } = kept
            /\ Cardinality(LineItemsOf(id)) = Cardinality(kept)
            /\ \A li \in LineItemsOf(id) :
                 /\ li.volume = NumberOf(form[li.pollutant_id].volume)
                 /\ li.cost = NumberOf(form[li.pollutant_id].cost)

\* An edit that removed two or more stored line items and resubmitted only the first
\* pollutant left exactly that one line item.
EditReplacesLineItemsWitness ==
    /\ request.kind = "edit"
    /\ response.status = 303
    /\ response.rows_deleted >= 2
    /\ SubmittedPositive(request.form, 1)
    /\ \A p \in Pollutant \ {1} : ~SubmittedPositive(request.form, p)
    /\ { li.pollutant_id : li \in LineItemsOf(request.operation_id) } = {1}

\* C5: every stored line item references an operation that exists.
NoOrphanLineItems ==
    \A li \in operation_pollutants : li.operation_id \in DOMAIN operations

\* A delete removed an operation together with its line items while another
\* operation keeps its own.
NoOrphanLineItemsWitness ==
    /\ request.kind = "delete"
    /\ response.status = 303
    /\ response.rows_deleted > 0
    /\ request.operation_id \notin DOMAIN operations
    /\ operation_pollutants # {}

\* C6: every stored line item has a positive volume or a positive cost.
StoredLineItemsPositive ==
    \A li \in operation_pollutants : li.volume > 0 \/ li.cost > 0

\* A create or edit submitted zero volume and zero cost for one pollutant and
\* a positive amount for another: only the latter has a row.
StoredLineItemsPositiveWitness ==
    /\ request.kind \in {"create", "edit"}
    /\ response.status = 303
    /\ \E p, q \in Pollutant :
         /\ request.form[p].volume = "0"
         /\ request.form[p].cost = "0"
         /\ \A li \in LineItemsOf(request.operation_id) : li.pollutant_id # p
         /\ \E li \in LineItemsOf(request.operation_id) : li.pollutant_id = q

\* C9: an edit, delete or detail request for an id that is not stored is
\* answered 404 and changes neither the operations nor the line items.
NotFoundStep ==
    (/\ request'.kind \in {"edit", "delete", "detail"}
     /\ request'.operation_id \notin DOMAIN operations)
        => /\ response'.status = 404
           /\ operations' = operations
           /\ operation_pollutants' = operation_pollutants

NotFoundLeavesStore == [][NotFoundStep]_vars

\* An edit of a missing id was answered 404 while operations with line items
\* are stored.
NotFoundLeavesStoreWitness ==
    /\ request.kind = "edit"
    /\ response.status = 404
    /\ request.operation_id \notin DOMAIN operations
    /\ DOMAIN operations # {}
    /\ operation_pollutants # {}

\* C10: every stored operation references an existing ship, port and
\* contractor.
ReferencesExist ==
    \A o \in DOMAIN operations :
        /\ operations[o].ship_id \in Ship
        /\ operations[o].port_id \in Port
        /\ operations[o].contractor_id \in Contractor

(***************************************************************************)
(* Properties of the analytics request.                                    *)
(***************************************************************************)
Answered(kind) == request.kind = kind /\ response.status = 200

SummaryOf(s) ==
    { i \in DOMAIN response.summary_results :
        response.summary_results[i].ship_name = s }

OperationsUpToCutoff(s) ==
    { o \in OperationsOfShip(s) : operations[o].date <= current_date }

\* C1: the summary holds every ship exactly once; a ship without an
\* operation up to the cutoff is listed with count 0 and NULL sums.
SummaryListsEveryShip ==
    Answered("analytics") =>
        \A s \in Ship :
            /\ Cardinality(SummaryOf(s)) = 1
            /\ OperationsUpToCutoff(s) = {} =>
                 \A i \in SummaryOf(s) :
                     /\ response.summary_results[i].operation_count = 0
                     /\ OrZero(response.summary_results[i].total_volume) = 0
                     /\ OrZero(response.summary_results[i].total_cost) = 0

RECURSIVE BreakdownCost(_, _)
BreakdownCost(s, n) ==
    IF n = 0 THEN 0
    ELSE (IF response.pollutants_results[n].ship_name = s
          THEN OrZero(response.pollutants_results[n].total_cost)
          ELSE 0) + BreakdownCost(s, n - 1)

\* C2: for every ship of the summary, the costs of its breakdown rows add up
\* to its summary cost (a NULL sum read as 0).
BreakdownMatchesSummary ==
    Answered("analytics") =>
        \A i \in DOMAIN response.summary_results :
            BreakdownCost(response.summary_results[i].ship_name,
                          Len(response.pollutants_results))
              = OrZero(response.summary_results[i].total_cost)

\* A ship with two operations up to the cutoff and two breakdown rows, one of
\* them from line items with volume 0.
BreakdownMatchesSummaryWitness ==
    /\ Answered("analytics")
    /\ \E i \in DOMAIN response.summary_results :
         LET s == response.summary_results[i].ship_name
         IN  /\ Cardinality(OperationsUpToCutoff(s)) >= 2
             /\ OrZero(response.summary_results[i].total_cost) >= 2
             /\ Cardinality({ n \in DOMAIN response.pollutants_results :
                    response.pollutants_results[n].ship_name = s }) >= 2
             /\ \E n \in DOMAIN response.pollutants_results :
                    /\ response.pollutants_results[n].ship_name = s
                    /\ response.pollutants_results[n].total_volume = Some(0)

\* C3: the operation count of a summary row is the number of the ship's
\* operations up to the cutoff.
OperationCountIsOperations ==
    Answered("analytics") =>
        \A i \in DOMAIN response.summary_results :
            response.summary_results[i].operation_count =
              Cardinality(OperationsUpToCutoff(
                            response.summary_results[i].ship_name))

(***************************************************************************)
(* Properties of the list request.                                         *)
(***************************************************************************)
\* ship_ids holds a token that is not empty and that int() rejects.
HasUnparsableToken(ship_ids) ==
    /\ ship_ids # None
    /\ \E i \in DOMAIN Split(TheValue(ship_ids)) :
         LET token == Split(TheValue(ship_ids))[i]
         IN  token # <<>> /\ \E j \in DOMAIN token : token[j] \notin Digits

Range(seq) == { seq[i] : i \in DOMAIN seq }

\* C8: a list request whose ship_ids holds an unparsable token is answered
\* (200) with the operations that the same request without ship_ids selects.
MalformedShipIdsIsNoFilter ==
    (request.kind = "list" /\ HasUnparsableToken(request.query.ship_ids)) =>
        /\ response.status = 200
        /\ Range(response.operations) =
             Filtered([request.query EXCEPT !.ship_ids = None])

\* A request with ship_ids "1,x" returned an operation of another ship than
\* ship 1, and the store holds an operation that another filter excluded.
MalformedShipIdsIsNoFilterWitness ==
    /\ request.kind = "list"
    /\ request.query.ship_ids = Some(<<"1", ",", "x">>)
    /\ \E o \in Range(response.operations) : operations[o].ship_id # 1
    /\ \E o \in DOMAIN operations : o \notin Range(response.operations)

(***************************************************************************)
(* Properties of concurrent requests.                                      *)
(***************************************************************************)
\* C7: the detail answer of a reader shows the operation as it was committed
\* at some moment of the request: the main fields, the line items and the
\* total cost of one and the same committed state.
ReaderSeesCommittedState ==
    (reader.pc = "done" /\ reader.response.status = 200) =>
        \E snap \in reader.seen :
            reader.response =
              DetailBody(reader.operation_id, snap.operation, snap.items,
                         SumCost(snap.items))

====
